---- MODULE Spec2Model ----
(***************************************************************************)
(* Procedural map generator of creaturegame (src/map.go): initMap and its  *)
(* four stages generateWaterBodies, generatePaths, generateMountains and   *)
(* placeBridges, as a state machine with one step per loop iteration that  *)
(* writes the map.  Every value the code takes from math/rand is a         *)
(* nondeterministic choice.                                                *)
(*                                                                         *)
(* Bounds.  The noise grid is one of NoiseGrid(0..MaxNoise).  One stage at *)
(* a time has its draws followed in full (the variable focus, fixed by     *)
(* Init); in the other stages one outcome of each draw is followed: no     *)
(* river origin, two waypoints with every 0.7 roll succeeding, one cluster *)
(* with one centre and one offset.  The water stage has two such settings: *)
(* "water" follows the sets of origins and the changes of direction with   *)
(* rivers of the smallest length, "rivers" follows every length for one    *)
(* river that keeps its direction.  The sets of followed outcomes are      *)
(* named where the draw is modelled.  A Go panic is the state pc = "panic".*)
(*                                                                         *)
(* SpecGame continues after initMap with the game loop (src/game.go,       *)
(* src/player.go, src/battle.go, the main menu): one step per call of      *)
(* Update, with the keys of the frame and the draws of math/rand as        *)
(* nondeterministic choices.                                               *)
(***************************************************************************)
EXTENDS Integers, Sequences, FiniteSets, TLC

(* ------------------------------------------------------------------ *)
(* Program constants (src/map.go)                                     *)
(* ------------------------------------------------------------------ *)
TileGrass == 0
TilePath == 1
TileWater == 2
TileBridge == 3
TileMountain == 4

LayerBase == 0
LayerOverlay == 1
LayerObjects == 2
LayerCount == 3

\* initMap: width, height := 20, 15
MapWidth == 20
MapHeight == 15

\* placeBridges: buffer := 2, at most 3 bridges, water stretch of 2..5 cells
buffer == 2
MaxBridges == 3
MinWaterLength == 2
MaxWaterLength == 5

\* generateWaterBodies: for range 4
RelaxPasses == 4
\* generateMountains: attempts < 20, waterCount <= 2
MaxAttempts == 20
MaxWaterNear == 2

(* ------------------------------------------------------------------ *)
(* Program constants (src/player.go, src/game.go, src/battle.go)      *)
(* ------------------------------------------------------------------ *)
MovementIdle == 0
MovementMoving == 1

DirectionUp == 0
DirectionDown == 1
DirectionLeft == 2
DirectionRight == 3

StateMainMenu == 0
StateOverworld == 1
StateBattle == 2

\* pixels per tile, and pixels per frame of a move (updateOverworld)
tileSize == 32
movementSpeed == 4

\* startBattle and updateBattle: battleTextTimer = 60
TextFrames == 60

(* ------------------------------------------------------------------ *)
(* Bounds of the model (not program constants)                        *)
(* ------------------------------------------------------------------ *)
\* noise grids NoiseGrid(0) .. NoiseGrid(MaxNoise) are enumerated
MaxNoise == 2
\* the 0.2 roll of the shoreline scan is followed for this many shoreline cells
MaxRiverOrigins == 3
\* changes of direction the model follows in the walk of the first river
MaxRiverTurns == 1
\* iterations of one waypoint-to-waypoint walk that the model follows
MaxWalkIters == 36

(* ------------------------------------------------------------------ *)
(* State                                                              *)
(* ------------------------------------------------------------------ *)
VARIABLES
    pc,            \* position in initMap: the stage and loop being executed
    width, height, \* g.worldMap.width / height (the arguments of every stage)
    tiles,         \* g.worldMap.tiles[layer][y][x]
    grassTiles,    \* g.worldMap.grassTiles   (set of keys mapped to true)
    bridgeTiles,   \* g.worldMap.bridgeTiles
    collisionMap,  \* g.worldMap.collisionMap
    waterMap,      \* generateWaterBodies: waterMap[y][x]
    water,         \* generateWaterBodies: loop state (pass, riverOrigins, river walk, commit cursor)
    path,          \* generatePaths: pathPoints, segment index i, position x, y
    walkIters,     \* generatePaths: iterations of the current walk loop so far
    mtn,           \* generateMountains: clusters left, centre, attempts, validSpot, stamps left
    br,            \* placeBridges: scoredBridges, i, numBridges, bridgesPlaced, bridgeMap, stamping cursor
    twin,          \* placeBridges: scoredBridges as sort.Slice leaves it in a second run on the same map
    focus,         \* bound of the model: the stage whose random draws are followed in full
    game           \* the Game of NewGame apart from worldMap: player, gameState, battle, creatures, menu

vars == <<pc, width, height, tiles, grassTiles, bridgeTiles, collisionMap,
          waterMap, water, path, walkIters, mtn, br, twin, focus, game>>

(* ------------------------------------------------------------------ *)
(* Helpers of src/map.go                                              *)
(* ------------------------------------------------------------------ *)
abs(x) == IF x < 0 THEN 0 - x ELSE x

min(a, b) == IF a < b THEN a ELSE b

max(a, b) == IF a > b THEN a ELSE b

\* string(rune(v)): the one-code-point string of v, or U+FFFD (65533) when v
\* is not a valid code point (negative, a surrogate, above U+10FFFF).
\* A string is modelled as its sequence of code points.
runeString(v) ==
    IF v < 0 \/ v > 1114111 \/ (v >= 55296 /\ v <= 57343) THEN <<65533>> ELSE <<v>>

\* a formatCoord that writes each coordinate as its last decimal digit ("0" is 48)
formatCoordDigit(x, y) == runeString(48 + (x % 10)) \o <<44>> \o runeString(48 + (y % 10))

\* a formatCoord that keeps only the low three bits of each coordinate
formatCoordLossy(x, y) == runeString(x % 8) \o <<44>> \o runeString(y % 8)

\* formatCoord(x, y) = string(rune(x)) + "," + string(rune(y));  "," is 44
formatCoord(x, y) == runeString(x) \o <<44>> \o runeString(y)

InBounds(x, y) == x >= 0 /\ x < width /\ y >= 0 /\ y < height

\* the coordinates of a map whose rows were as long as it is high
CoordsSquare == (0..(height - 1)) \X (0..(height - 1))

Coords == (0..(width - 1)) \X (0..(height - 1))

Base(x, y) == tiles[LayerBase][y][x]

Overlay(x, y) == tiles[LayerOverlay][y][x]

Delta1 == {-1, 0, 1}

(* ------------------------------------------------------------------ *)
(* Random draws                                                       *)
(* ------------------------------------------------------------------ *)
\* rand.Float32() < p: either outcome
Roll == BOOLEAN

\* rand.Intn(n) for n > 0 (rand.Intn panics for n <= 0)
Intn(n) == 0..(n - 1)

(* ------------------------------------------------------------------ *)
(* generateWaterBodies: noise and relaxation                          *)
(* ------------------------------------------------------------------ *)
\* The noise grids the model enumerates, each a union of rectangles
\* <<x0, y0, x1, y1>> (inclusive).  Every cell is water with probability 0.3
\* independently, so every grid is a possible outcome of lines 82-90.
NoiseRects(n) ==
    CASE n = 0 -> {<<0, 0, 19, 1>>, <<8, 4, 10, 9>>, <<7, 6, 7, 6>>, <<7, 8, 7, 8>>,
                   <<18, 6, 19, 9>>, <<13, 13, 13, 13>>}
      [] n = 1 -> {<<0, 0, 19, 1>>, <<5, 5, 6, 6>>, <<9, 5, 10, 6>>}
      [] n = 2 -> {}
      [] n = 3 -> {<<0, 0, 1, 14>>, <<5, 7, 10, 9>>, <<3, 3, 3, 3>>, <<7, 6, 7, 6>>}
      [] OTHER -> {<<0, 0, 19, 14>>}

InRect(r, x, y) == x >= r[1] /\ x <= r[3] /\ y >= r[2] /\ y <= r[4]

NoiseGrid(n, w, h) ==
    [y \in 0..(h - 1) |-> [x \in 0..(w - 1) |-> \E r \in NoiseRects(n) : InRect(r, x, y)]]

\* lines 99-107: the water cells among the 3x3 block centred on (x, y)
\* (dx = dy = 0 is not skipped, so the cell itself is counted)
waterNeighbors(wm, w, h, x, y) ==
    Cardinality({d \in Delta1 \X Delta1 :
        LET nx == x + d[1]
            ny == y + d[2]
        IN  nx >= 0 /\ nx < w /\ ny >= 0 /\ ny < h /\ wm[ny][nx]})

\* lines 94-115: one relaxation pass, computed from the previous grid
relaxPass(wm, w, h) ==
    [y \in 0..(h - 1) |-> [x \in 0..(w - 1) |-> waterNeighbors(wm, w, h, x, y) >= 4]]

\* lines 124-137: a water cell with a non-water cell in its 3x3 block
hasLandNeighbor(wm, w, h, x, y) ==
    \E d \in Delta1 \X Delta1 :
        LET nx == x + d[1]
            ny == y + d[2]
        IN  nx >= 0 /\ nx < w /\ ny >= 0 /\ ny < h /\ ~wm[ny][nx]

\* cells in scan order (for y, for x): index y*width + x
CellIndex(x, y) == y * width + x

\* the shoreline cells in the order the scan of lines 122-143 visits them
ShorelineCells(wm, w, h) ==
    {c \in (0..(w - 1)) \X (0..(h - 1)) : wm[c[2]][c[1]] /\ hasLandNeighbor(wm, w, h, c[1], c[2])}

\* a set of cells as the sequence in which a scan (for y, for x) meets them
RECURSIVE ScanOrder(_)
ScanOrder(S) ==
    IF S = {} THEN <<>>
    ELSE LET c == CHOOSE c \in S : \A d \in S : CellIndex(c[1], c[2]) <= CellIndex(d[1], d[2])
         IN  <<c>> \o ScanOrder(S \ {c})

\* The 0.2 roll of line 138 is followed for the first MaxRiverOrigins shoreline
\* cells of the scan and taken as failed for the others.
OriginWindow(wm, w, h) ==
    LET shore == ShorelineCells(wm, w, h)
    IN  {c \in shore :
            Cardinality({d \in shore : CellIndex(d[1], d[2]) < CellIndex(c[1], c[2])}) < MaxRiverOrigins}

\* the sets of origins the scan can record within the bounds of the model
OriginSets(wm, w, h) ==
    IF focus = "water" THEN SUBSET OriginWindow(wm, w, h)
    ELSE IF focus = "rivers"
    THEN {{c \in ShorelineCells(wm, w, h) :
              \A d \in ShorelineCells(wm, w, h) : CellIndex(c[1], c[2]) <= CellIndex(d[1], d[2])}}
    ELSE {{}}

\* line 150: rand.Intn(8) + 3; every value is followed under focus "rivers",
\* the smallest one otherwise
RiverLengths == {v + 3 : v \in {u \in Intn(8) : u = 0 \/ focus = "rivers"}}

clamp1(v) == IF v < -1 THEN -1 ELSE IF v > 1 THEN 1 ELSE v

\* lines 154-164: the initial direction <<dx, dy>>
InitialDirections ==
    {<<d, 0>> : d \in {v - 1 : v \in Intn(3)} \ {0}}
        \cup {<<0, s * 2 - 1>> : s \in Intn(2)}
        \cup {<<0, d>> : d \in {v - 1 : v \in Intn(3)} \ {0}}
        \cup {<<s * 2 - 1, 0>> : s \in Intn(2)}

\* a change of direction that may leave the river without a direction
keepDirection(d) == {d}

\* lines 194-200: a direction of <<0, 0>> is replaced by a unit step on one axis
ensureDirection(d) ==
    IF d[1] = 0 /\ d[2] = 0
    THEN {<<s * 2 - 1, 0>> : s \in Intn(2)} \cup {<<0, s * 2 - 1>> : s \in Intn(2)}
    ELSE {d}

\* lines 177-200: the directions a change of direction can lead to
turnedDirections(dx, dy) ==
    UNION {ensureDirection(<<clamp1(dx + (v - 1)), dy>>) : v \in Intn(3)}
        \cup UNION {ensureDirection(<<dx, clamp1(dy + (v - 1))>>) : v \in Intn(3)}

(* ------------------------------------------------------------------ *)
(* Writes to the map (tile and attribute sets together)               *)
(* ------------------------------------------------------------------ *)
setTile(t, layer, x, y, kind) == [t EXCEPT ![layer][y][x] = kind]

\* a write that leaves grassTiles as it is
keepGrass(g, key) == g

\* lines 217, 249, 270, 320: delete(g.worldMap.grassTiles, key)
deleteGrass(g, key) == g \ {key}

NoWater == [pass |-> 0, riverOrigins |-> <<>>, idx |-> 1, x |-> 0, y |-> 0,
            dx |-> 0, dy |-> 0, left |-> 0, turns |-> 0, cursor |-> 0]
NoPath == [points |-> <<>>, i |-> 1, x |-> 0, y |-> 0]
NoMtn == [clusters |-> 0, mountainX |-> 0, mountainY |-> 0, attempts |-> 0,
          validSpot |-> FALSE, stamps |-> 0]
NoBr == [scoredBridges |-> <<>>, i |-> 1, numBridges |-> 0, bridgesPlaced |-> 0,
         bridgeMap |-> {}, cursor |-> 0, endCell |-> 0, stamped |-> {}, placed |-> <<>>]

(* ------------------------------------------------------------------ *)
(* Initial state: NewGame before initMap has run                      *)
(* ------------------------------------------------------------------ *)
Focus == {"water", "rivers", "paths", "mountains"}

\* src/game.go, lines 71-120: the three creatures (level 5, two moves each);
\* the fields that calculateDamage and the battle read
Creature(name, hp, attack, defense, second) ==
    [name |-> name, hp |-> hp, maxHP |-> hp, attack |-> attack, defense |-> defense,
     level |-> 5,
     moves |-> <<[name |-> "Tackle", power |-> 40], [name |-> second, power |-> 50]>>]

Creatures ==
    <<Creature("Sparkitty", 50, 12, 10, "Spark"),
      Creature("Flamepup", 45, 15, 8, "Ember"),
      Creature("Bubblefrog", 55, 10, 12, "Bubble")>>

\* the zero value of Creature: battle.enemyCreature before the first battle
NoCreature ==
    [name |-> "", hp |-> 0, maxHP |-> 0, attack |-> 0, defense |-> 0, level |-> 0, moves |-> <<>>]

\* src/game.go, lines 36-56 and 71-123: the Game that NewGame builds, at the
\* point where initGame calls initMap (creatures and the starter are set,
\* gameInitialized is still false)
NewGame ==
    [player |-> [tileX |-> 5, tileY |-> 5,
                 visualX |-> 5 * tileSize, visualY |-> 5 * tileSize,
                 movementState |-> MovementIdle, direction |-> DirectionDown,
                 currentLayer |-> LayerBase],
     gameState |-> StateMainMenu,
     battle |-> [playerCreature |-> Creatures[1], enemyCreature |-> NoCreature,
                 currentTurn |-> 0, selectedAction |-> 0, battleTextTimer |-> 0],
     creatures |-> Creatures,
     menuOptions |-> <<"New Game", "Options", "Exit">>,
     selectedOption |-> 0,
     gameInitialized |-> FALSE]

InitFields(w, h) ==
    /\ pc = "initMap"
    /\ game = NewGame
    /\ width = w
    /\ height = h
    /\ tiles = <<>>
    /\ grassTiles = {}
    /\ bridgeTiles = {}
    /\ collisionMap = {}
    /\ waterMap = <<>>
    /\ water = NoWater
    /\ path = NoPath
    /\ walkIters = 0
    /\ mtn = NoMtn
    /\ br = NoBr
    /\ twin = <<>>

InitWith(w, h) == focus \in Focus /\ InitFields(w, h)

Init == InitWith(MapWidth, MapHeight)

(* ------------------------------------------------------------------ *)
(* initMap, lines 42-64: allocate the layers, all Grass               *)
(* ------------------------------------------------------------------ *)
\* make([][]int, height) and make([]int, width) panic for a negative length
InitLayers ==
    /\ pc = "initMap"
    /\ IF height < 0 \/ (height > 0 /\ width < 0)
       THEN /\ pc' = "panic"
            /\ UNCHANGED <<tiles, grassTiles>>
       ELSE /\ pc' = "noise"
            /\ tiles' = [layer \in 0..(LayerCount - 1) |->
                            [y \in 0..(height - 1) |-> [x \in 0..(width - 1) |-> TileGrass]]]
            /\ grassTiles' = {formatCoord(c[1], c[2]) : c \in Coords}
    \* lines 47-48: bridgeTiles and collisionMap are made anew
    /\ bridgeTiles' = {}
    /\ collisionMap' = {}
    /\ UNCHANGED <<width, height, waterMap, water, path, walkIters, mtn, br, twin, focus, game>>

(* ------------------------------------------------------------------ *)
(* generateWaterBodies, lines 80-221                                  *)
(* ------------------------------------------------------------------ *)
waterFrame == UNCHANGED <<width, height, tiles, grassTiles, bridgeTiles, collisionMap,
                          path, walkIters, mtn, br, twin, focus, game>>

\* lines 82-90: the random noise grid
SeedNoise ==
    /\ pc = "noise"
    /\ \E n \in 0..MaxNoise : waterMap' = NoiseGrid(n, width, height)
    /\ water' = [NoWater EXCEPT !.pass = 0]
    /\ pc' = "relax"
    /\ waterFrame

\* lines 93-116: one of the 4 relaxation passes
RelaxStep ==
    /\ pc = "relax"
    /\ water.pass < RelaxPasses
    /\ waterMap' = relaxPass(waterMap, width, height)
    /\ water' = [water EXCEPT !.pass = @ + 1]
    /\ pc' = IF water.pass + 1 < RelaxPasses THEN "relax" ELSE "origins"
    /\ waterFrame

\* lines 119-143: the shoreline scan that records the river origins
FindRiverOrigins ==
    /\ pc = "origins"
    /\ \E S \in OriginSets(waterMap, width, height) :
          water' = [water EXCEPT !.riverOrigins = ScanOrder(S), !.idx = 1]
    /\ pc' = "river"
    /\ UNCHANGED waterMap
    /\ waterFrame

\* line 146 reached with every origin handled: on to the commit loop
RiversDone ==
    /\ pc = "river"
    /\ water.idx > Len(water.riverOrigins)
    /\ water' = [NoWater EXCEPT !.cursor = 0]
    /\ pc' = "commit"
    /\ UNCHANGED waterMap
    /\ waterFrame

\* line 147 false: with more than 2 origins, the 0.5 roll failed
RiverSkip ==
    /\ pc = "river"
    /\ water.idx <= Len(water.riverOrigins)
    /\ Len(water.riverOrigins) > 2
    /\ water' = [water EXCEPT !.idx = @ + 1]
    /\ UNCHANGED <<pc, waterMap>>
    /\ waterFrame

\* lines 147-164: a river is drawn from this origin: length and direction
RiverBegin ==
    /\ pc = "river"
    /\ water.idx <= Len(water.riverOrigins)
    /\ \E length \in RiverLengths, d \in InitialDirections :
          water' = [water EXCEPT !.x = water.riverOrigins[water.idx][1],
                                 !.y = water.riverOrigins[water.idx][2],
                                 !.dx = d[1], !.dy = d[2], !.left = length]
    /\ pc' = "riverWalk"
    /\ UNCHANGED waterMap
    /\ waterFrame

\* the state of the walk after one more iteration of the loop of line 167
riverAdvance(nx, ny, d, turned) ==
    [water EXCEPT !.x = nx, !.y = ny, !.dx = d[1], !.dy = d[2],
                  !.left = @ - 1,
                  !.turns = IF turned THEN @ + 1 ELSE @,
                  !.idx = IF water.left - 1 = 0 THEN @ + 1 ELSE @]

\* lines 168-171: the next cell is outside the grid: break
RiverLeaveGrid ==
    /\ pc = "riverWalk"
    /\ water.left > 0
    /\ ~InBounds(water.x + water.dx, water.y + water.dy)
    /\ water' = [water EXCEPT !.idx = @ + 1, !.left = 0]
    /\ pc' = "river"
    /\ UNCHANGED waterMap
    /\ waterFrame

\* lines 168-203, the 0.2 roll of line 176 failed: mark the cell, keep the direction
RiverStep ==
    /\ pc = "riverWalk"
    /\ water.left > 0
    /\ LET nx == water.x + water.dx
           ny == water.y + water.dy
       IN  /\ InBounds(nx, ny)
           /\ waterMap' = [waterMap EXCEPT ![ny][nx] = TRUE]
           /\ water' = riverAdvance(nx, ny, <<water.dx, water.dy>>, FALSE)
    /\ pc' = IF water.left - 1 = 0 THEN "river" ELSE "riverWalk"
    /\ waterFrame

\* lines 168-203, the 0.2 roll succeeded: mark the cell, change the direction
RiverTurn ==
    /\ pc = "riverWalk"
    /\ water.left > 0
    /\ focus = "water"
    /\ water.idx = 1
    /\ water.turns < MaxRiverTurns
    /\ LET nx == water.x + water.dx
           ny == water.y + water.dy
       IN  /\ InBounds(nx, ny)
           /\ waterMap' = [waterMap EXCEPT ![ny][nx] = TRUE]
           /\ \E d \in turnedDirections(water.dx, water.dy) :
                 water' = riverAdvance(nx, ny, d, TRUE)
    /\ pc' = IF water.left - 1 = 0 THEN "river" ELSE "riverWalk"
    /\ waterFrame

\* lines 212-217: one water cell written to Base, collisionMap and grassTiles
commitWater(x, y) ==
    /\ tiles' = setTile(tiles, LayerBase, x, y, TileWater)
    /\ collisionMap' = collisionMap \cup {formatCoord(x, y)}
    /\ grassTiles' = deleteGrass(grassTiles, formatCoord(x, y))

\* the scan indices at or after the cursor whose cell is water
waterAhead == {i \in water.cursor..(width * height - 1) : waterMap[i \div width][i % width]}

\* lines 209-220, run to the next water cell of the scan and write it
CommitWater ==
    /\ pc = "commit"
    /\ waterAhead # {}
    /\ LET i == CHOOSE i \in waterAhead : \A j \in waterAhead : i <= j
       IN  /\ commitWater(i % width, i \div width)
           /\ water' = [water EXCEPT !.cursor = i + 1]
    /\ UNCHANGED <<pc, width, height, bridgeTiles, waterMap, path, walkIters, mtn, br, twin,
                   focus, game>>

\* lines 209-220 done: no water cell is left in the scan
CommitDone ==
    /\ pc = "commit"
    /\ waterAhead = {}
    /\ pc' = "paths"
    /\ water' = NoWater
    /\ waterMap' = <<>>
    /\ waterFrame

(* ------------------------------------------------------------------ *)
(* generatePaths, lines 224-273                                       *)
(* ------------------------------------------------------------------ *)
pathFrame == UNCHANGED <<width, height, bridgeTiles, collisionMap, waterMap, water, mtn, br, twin,
                         focus, game>>

\* line 229: rand.Intn(3) + 2 waypoints; the model follows 2, and 3 under focus "paths"
PathCounts == {v + 2 : v \in {u \in Intn(3) : IF focus = "paths" THEN u <= 1 ELSE u = 0}}

\* lines 230-234: of the draws {rand.Intn(width), rand.Intn(height)} the model
\* follows two neighbouring coordinates, moved into the map when it is smaller
WaypointChoices == <<(<<5, 6>>), (<<7, 7>>)>>

clip(p) == <<min(p[1], width - 1), min(p[2], height - 1)>>

\* the waypoint sequences pathPoints the model follows
PathPointSeqs ==
    IF focus = "paths"
    THEN UNION {[1..n -> {clip(WaypointChoices[k]) : k \in 1..Len(WaypointChoices)}] : n \in PathCounts}
    ELSE {[k \in 1..n |-> clip(WaypointChoices[((k - 1) % Len(WaypointChoices)) + 1])] : n \in PathCounts}

\* lines 253, 255: rand.Float32() < 0.7; taken as succeeding outside focus "paths"
WalkRolls == IF focus = "paths" THEN Roll ELSE {TRUE}

\* lines 226-234: draw the waypoints; rand.Intn panics when its argument is not positive
ChoosePathPoints ==
    /\ pc = "paths"
    /\ IF width <= 0 \/ height <= 0
       THEN /\ pc' = "panic"
            /\ UNCHANGED path
       ELSE /\ \E pts \in PathPointSeqs :
                  path' = [points |-> pts, i |-> 1, x |-> pts[1][1], y |-> pts[1][2]]
            /\ pc' = "walk"
    /\ UNCHANGED <<tiles, grassTiles, walkIters>>
    /\ pathFrame

\* a path that is laid over water as well
canPathAlways(t, x, y) == TRUE

\* lines 244, 265: a path tile is written only where Base is not Water
canPath(t, x, y) == t[LayerBase][y][x] # TileWater

\* lines 244-250 and 265-271: Base = Path and the key leaves grassTiles
writePath(x, y) ==
    IF canPath(tiles, x, y)
    THEN /\ tiles' = setTile(tiles, LayerBase, x, y, TilePath)
         /\ grassTiles' = deleteGrass(grassTiles, formatCoord(x, y))
    ELSE UNCHANGED <<tiles, grassTiles>>

\* a move that steps along both axes in one iteration
walkMoveDiagonal(x, y, end, hit) ==
    <<IF x < end[1] THEN x + 1 ELSE IF x > end[1] THEN x - 1 ELSE x,
      IF y < end[2] THEN y + 1 ELSE IF y > end[2] THEN y - 1 ELSE y>>

\* lines 253-261: the position after one iteration, hit being the 0.7 roll
walkMove(x, y, end, hit) ==
    IF x < end[1] /\ hit THEN <<x + 1, y>>
    ELSE IF x > end[1] /\ hit THEN <<x - 1, y>>
    ELSE IF y < end[2] THEN <<x, y + 1>>
    ELSE IF y > end[2] THEN <<x, y - 1>>
    ELSE <<x, y>>

walkEnd == path.points[path.i + 1]

\* lines 243-262: one iteration of the walk loop (walkIters saturates at MaxWalkIters)
WalkStep ==
    /\ pc = "walk"
    /\ path.x # walkEnd[1] \/ path.y # walkEnd[2]
    /\ writePath(path.x, path.y)
    /\ \E hit \in WalkRolls :
          LET n == walkMove(path.x, path.y, walkEnd, hit)
          IN  path' = [path EXCEPT !.x = n[1], !.y = n[2]]
    /\ walkIters' = min(walkIters + 1, MaxWalkIters)
    /\ UNCHANGED pc
    /\ pathFrame

\* lines 265-271: the walk has reached its end: write the end tile, next segment
WalkEnd ==
    /\ pc = "walk"
    /\ path.x = walkEnd[1] /\ path.y = walkEnd[2]
    /\ writePath(path.x, path.y)
    /\ walkIters' = 0
    /\ IF path.i + 1 < Len(path.points)
       THEN /\ path' = [path EXCEPT !.i = @ + 1]
            /\ UNCHANGED pc
       ELSE /\ path' = NoPath
            /\ pc' = "mountains"
    /\ pathFrame

(* ------------------------------------------------------------------ *)
(* generateMountains, lines 276-324                                   *)
(* ------------------------------------------------------------------ *)
mtnFrame == UNCHANGED <<width, height, bridgeTiles, waterMap, water, path, walkIters, br, twin,
                        focus, game>>

\* line 278: rand.Intn(3) + 1 clusters; the model follows 1, and 2 under focus "mountains"
ClusterCounts == {v + 1 : v \in {u \in Intn(3) : IF focus = "mountains" THEN u <= 1 ELSE u = 0}}

\* lines 286-287: of the centres {rand.Intn(width-4)+2, rand.Intn(height-4)+2}
\* the model follows <<4, 7>>, and <<9, 8>> as well under focus "mountains"
CentreChoices == IF focus = "mountains" THEN {<<4, 7>>, <<9, 8>>} ELSE {<<4, 7>>}

\* rand.Intn(width-4)+2 is at most width-3: the choices are moved into that range
CentreDraws == {<<min(c[1], width - 3), min(c[2], height - 3)>> : c \in CentreChoices}

\* line 306: rand.Intn(8) + 5 stamps, of which the model follows the smallest
\* value, and the largest as well under focus "mountains"
ClusterSizes == {v + 5 : v \in {u \in Intn(8) : u = 0 \/ (u = 7 /\ focus = "mountains")}}

\* offsets drawn as rand.Intn(5) without the shift by -2
OffsetDrawsUnshifted ==
    IF focus = "mountains" THEN {<<2, 2>>, <<3, 1>>, <<4, 2>>} ELSE {<<2, 2>>}

\* lines 309-310: of the offsets {rand.Intn(5)-2, rand.Intn(5)-2} the model
\* follows <<0, 0>>, and two more under focus "mountains"
OffsetDraws == IF focus = "mountains" THEN {<<0, 0>>, <<1, -1>>, <<2, 0>>} ELSE {<<0, 0>>}

\* lines 290-299: the water tiles of Base in the 5x5 block around the centre
waterCount(cx, cy) ==
    Cardinality({d \in (-2..2) \X (-2..2) :
        LET nx == cx + d[1]
            ny == cy + d[2]
        IN  nx >= 0 /\ nx < width /\ ny >= 0 /\ ny < height /\ Base(nx, ny) = TileWater})

\* line 278: the number of clusters
ChooseClusters ==
    /\ pc = "mountains"
    /\ \E n \in ClusterCounts : mtn' = [NoMtn EXCEPT !.clusters = n]
    /\ pc' = "attempt"
    /\ UNCHANGED <<tiles, grassTiles, collisionMap>>
    /\ mtnFrame

\* lines 285-303: one attempt at a centre; rand.Intn panics on a map narrower than 5
MountainAttempt ==
    /\ pc = "attempt"
    /\ ~mtn.validSpot /\ mtn.attempts < MaxAttempts
    /\ IF width - 4 <= 0 \/ height - 4 <= 0
       THEN /\ pc' = "panic"
            /\ UNCHANGED mtn
       ELSE /\ \E c \in CentreDraws :
                  mtn' = [mtn EXCEPT !.mountainX = c[1], !.mountainY = c[2],
                                     !.validSpot = waterCount(c[1], c[2]) <= MaxWaterNear,
                                     !.attempts = @ + 1]
            /\ UNCHANGED pc
    /\ UNCHANGED <<tiles, grassTiles, collisionMap>>
    /\ mtnFrame

\* line 306: the attempts are over (a valid spot, or 20 attempts): draw the size
ClusterSize ==
    /\ pc = "attempt"
    /\ mtn.validSpot \/ mtn.attempts >= MaxAttempts
    /\ \E n \in ClusterSizes :
          mtn' = [mtn EXCEPT !.stamps = n, !.attempts = 0, !.validSpot = FALSE]
    /\ pc' = "stamp"
    /\ UNCHANGED <<tiles, grassTiles, collisionMap>>
    /\ mtnFrame

\* a stamp that lands on every cell of the map, Water included
canMountainAnywhere(t, x, y) == InBounds(x, y)

\* a stamp that lands on Grass alone and spares the Path cells
canMountainOnGrass(t, x, y) == InBounds(x, y) /\ t[LayerBase][y][x] = TileGrass

\* lines 313-314: in bounds and the Base tile is not Water
canMountain(t, x, y) == InBounds(x, y) /\ t[LayerBase][y][x] # TileWater

\* lines 307-322: one stamp of the cluster; after the last one, the next cluster
MountainStamp ==
    /\ pc = "stamp"
    /\ mtn.stamps > 0
    /\ \E o \in OffsetDraws :
          LET x == mtn.mountainX + o[1]
              y == mtn.mountainY + o[2]
          IN  IF canMountain(tiles, x, y)
              THEN /\ tiles' = setTile(tiles, LayerBase, x, y, TileMountain)
                   /\ collisionMap' = collisionMap \cup {formatCoord(x, y)}
                   /\ grassTiles' = deleteGrass(grassTiles, formatCoord(x, y))
              ELSE UNCHANGED <<tiles, grassTiles, collisionMap>>
    /\ IF mtn.stamps > 1
       THEN /\ mtn' = [mtn EXCEPT !.stamps = @ - 1]
            /\ UNCHANGED pc
       ELSE IF mtn.clusters > 1
       THEN /\ mtn' = [NoMtn EXCEPT !.clusters = mtn.clusters - 1]
            /\ pc' = "attempt"
       ELSE /\ mtn' = NoMtn
            /\ pc' = "bridges"
    /\ mtnFrame

(* ------------------------------------------------------------------ *)
(* placeBridges, lines 327-574: detection, scoring, sorting           *)
(* ------------------------------------------------------------------ *)
isWater(t, x, y) == t[LayerBase][y][x] = TileWater

\* lines 343-346 and 508-511: for endX < limit && water { endX++ }
RECURSIVE waterEndX(_, _, _, _)
waterEndX(t, y, endX, limit) ==
    IF endX < limit /\ isWater(t, endX, y) THEN waterEndX(t, y, endX + 1, limit) ELSE endX

\* lines 403-406 and 541-544: for endY < limit && water { endY++ }
RECURSIVE waterEndY(_, _, _, _)
waterEndY(t, x, endY, limit) ==
    IF endY < limit /\ isWater(t, x, endY) THEN waterEndY(t, x, endY + 1, limit) ELSE endY

\* lines 339-385: the test of the horizontal detection loop at (x, y)
isHorizontalCandidate(t, x, y) ==
    /\ ~isWater(t, x - 1, y)
    /\ isWater(t, x, y)
    /\ LET endX == waterEndX(t, y, x, width - 1)
           waterLength == endX - x
       IN  /\ endX < width
           /\ ~isWater(t, endX, y)
           /\ waterLength >= MinWaterLength /\ waterLength <= MaxWaterLength
           /\ x - 1 >= 0 /\ y - 1 >= 0 /\ y + 1 < height
           /\ (~isWater(t, x - 1, y - 1) \/ ~isWater(t, x - 1, y + 1))
           /\ (~isWater(t, endX, y - 1) \/ ~isWater(t, endX, y + 1))

\* lines 399-445: the test of the vertical detection loop at (x, y)
isVerticalCandidate(t, x, y) ==
    /\ ~isWater(t, x, y - 1)
    /\ isWater(t, x, y)
    /\ LET endY == waterEndY(t, x, y, height - 1)
           waterLength == endY - y
       IN  /\ endY < height
           /\ ~isWater(t, x, endY)
           /\ waterLength >= MinWaterLength /\ waterLength <= MaxWaterLength
           /\ y - 1 >= 0 /\ x - 1 >= 0 /\ x + 1 < width
           /\ (~isWater(t, x - 1, y - 1) \/ ~isWater(t, x + 1, y - 1))
           /\ (~isWater(t, x - 1, endY) \/ ~isWater(t, x + 1, endY))

\* lines 463-485: length*10 + max(0, 20 - (distX + distY))
score(x, y, length) ==
    length * 10 + max(0, 20 - (abs(x - width \div 2) + abs(y - height \div 2)))

\* a scan that starts at row 0 and column 0
horizontalScanFromZero == (0..(width - 3)) \X (0..(height - 2))

\* lines 336-337: for y := 1; y < height-1 and for x := 1; x < width-2
horizontalScan == (1..(width - 3)) \X (1..(height - 2))

\* lines 396-397: for x := 1; x < width-1 and for y := 1; y < height-2
verticalScan == (1..(width - 2)) \X (1..(height - 3))

\* lines 336-337 and 386-388: the horizontal candidates, scored
horizontalCandidates(t) ==
    {[x |-> c[1], y |-> c[2], direction |-> 0,
      length |-> waterEndX(t, c[2], c[1], width - 1) - c[1],
      score |-> score(c[1], c[2], waterEndX(t, c[2], c[1], width - 1) - c[1])] :
        c \in {d \in horizontalScan : isHorizontalCandidate(t, d[1], d[2])}}

\* lines 396-397 and 446-448: the vertical candidates, scored
verticalCandidates(t) ==
    {[x |-> c[1], y |-> c[2], direction |-> 1,
      length |-> waterEndY(t, c[1], c[2], height - 1) - c[2],
      score |-> score(c[1], c[2], waterEndY(t, c[1], c[2], height - 1) - c[2])] :
        c \in {d \in verticalScan : isVerticalCandidate(t, d[1], d[2])}}

\* a set of horizontal candidates in the order of the loops (for y, for x)
RECURSIVE rowMajor(_)
rowMajor(S) ==
    IF S = {} THEN <<>>
    ELSE LET b == CHOOSE b \in S : \A c \in S : b.y * width + b.x <= c.y * width + c.x
         IN  <<b>> \o rowMajor(S \ {b})

\* a set of vertical candidates in the order of the loops (for x, for y)
RECURSIVE columnMajor(_)
columnMajor(S) ==
    IF S = {} THEN <<>>
    ELSE LET b == CHOOSE b \in S : \A c \in S : b.x * height + b.y <= c.x * height + c.y
         IN  <<b>> \o columnMajor(S \ {b})

\* lines 329-485: scoredBridges before the sort
bridgeCandidates(t) == rowMajor(horizontalCandidates(t)) \o columnMajor(verticalCandidates(t))

\* line 489: less(i, j) = scoredBridges[i].score > scoredBridges[j].score
\* a comparison that puts the lowest score first
lessAscending(a, b) == a.score < b.score

\* line 489: scoredBridges[i].score > scoredBridges[j].score
less(a, b) == a.score > b.score

\* insertion sort moves an element left while it is less than its predecessor:
\* it stops behind the elements of the sorted prefix that it is not less than
insertSorted(sorted, e) ==
    LET k == Cardinality({j \in 1..Len(sorted) : ~less(e, sorted[j])})
    IN  SubSeq(sorted, 1, k) \o <<e>> \o SubSeq(sorted, k + 1, Len(sorted))

RECURSIVE insertionSort(_)
insertionSort(sq) ==
    IF sq = <<>> THEN <<>>
    ELSE insertSorted(insertionSort(SubSeq(sq, 1, Len(sq) - 1)), sq[Len(sq)])

\* a sort whose order of equal scores is not a function of its input
sortSliceUnstable(sq) ==
    {insertionSort(sq), insertionSort([k \in 1..Len(sq) |-> sq[Len(sq) + 1 - k]])}

\* lines 488-490: sort.Slice runs insertion sort on a slice of at most 12
\* elements (sort.insertionSortLessFunc), the only lengths the model reaches
sortSlice(sq) == {insertionSort(sq)}

(* ------------------------------------------------------------------ *)
(* placeBridges, lines 492-573: greedy placement                      *)
(* ------------------------------------------------------------------ *)
brFrame == UNCHANGED <<width, height, grassTiles, waterMap, water, path, walkIters, mtn,
                       focus, game>>

\* a limit that lets every candidate be placed
bridgeLimitAll(sorted) == Len(sorted)

\* line 493: numBridges := min(len(scoredBridges), 3)
bridgeLimit(sorted) == min(Len(sorted), MaxBridges)

\* lines 329-496: detect, score and sort the candidates; numBridges = min(len, 3)
FindBridgeCandidates ==
    /\ pc = "bridges"
    /\ \E sorted \in sortSlice(bridgeCandidates(tiles)), again \in sortSlice(bridgeCandidates(tiles)) :
          /\ br' = [NoBr EXCEPT !.scoredBridges = sorted,
                                !.numBridges = bridgeLimit(sorted)]
          /\ twin' = again
    /\ pc' = "place"
    /\ UNCHANGED <<tiles, bridgeTiles, collisionMap>>
    /\ brFrame

\* a bridge end two cells after the start, whatever the water
bridgeEndShort(t, b) == (IF b.direction = 0 THEN b.x ELSE b.y) + MinWaterLength

\* an end that lies one cell beyond the first cell that is not Water
bridgeEndPastFlank(t, b) ==
    (IF b.direction = 0 THEN waterEndX(t, b.y, b.x, width) ELSE waterEndY(t, b.x, b.y, height)) + 1

\* lines 508-511 and 541-544: the end of the water under the bridge, found again
bridgeEnd(t, b) ==
    IF b.direction = 0 THEN waterEndX(t, b.y, b.x, width) ELSE waterEndY(t, b.x, b.y, height)

\* a proximity test that looks at the cells of the bridge alone
tooCloseNoBuffer(bm, b, end) ==
    IF b.direction = 0
    THEN \E x \in b.x..end : formatCoord(x, b.y) \in bm
    ELSE \E y \in b.y..end : formatCoord(b.x, y) \in bm

\* lines 514-526 and 547-559: a key of bridgeMap lies in the buffered rectangle
tooClose(bm, b, end) ==
    IF b.direction = 0
    THEN \E y \in (b.y - buffer)..(b.y + buffer), x \in (b.x - buffer)..(end + buffer) :
            formatCoord(x, y) \in bm
    ELSE \E y \in (b.y - buffer)..(end + buffer), x \in (b.x - buffer)..(b.x + buffer) :
            formatCoord(x, y) \in bm

\* lines 500-528 / 539-561: the next candidate is rejected, or its stamping begins
BridgeCheck ==
    /\ pc = "place"
    /\ br.i <= Len(br.scoredBridges) /\ br.bridgesPlaced < br.numBridges
    /\ LET b == br.scoredBridges[br.i]
           end == bridgeEnd(tiles, b)
       IN  IF tooClose(br.bridgeMap, b, end)
           THEN /\ br' = [br EXCEPT !.i = @ + 1]
                /\ UNCHANGED pc
           ELSE /\ br' = [br EXCEPT !.cursor = IF b.direction = 0 THEN b.x ELSE b.y,
                                    !.endCell = end, !.stamped = {}]
                /\ pc' = "stampBridge"
    /\ UNCHANGED <<tiles, bridgeTiles, collisionMap, twin>>
    /\ brFrame

\* a stamp that leaves collisionMap as it is
keepCollision(cm, key) == cm

\* lines 534 and 567: delete(g.worldMap.collisionMap, key)
deleteCollision(cm, key) == cm \ {key}

\* lines 530-536 / 563-569: one cell of the bridge is stamped
StampBridgeCell ==
    /\ pc = "stampBridge"
    /\ br.cursor < br.endCell
    /\ LET b == br.scoredBridges[br.i]
           x == IF b.direction = 0 THEN br.cursor ELSE b.x
           y == IF b.direction = 0 THEN b.y ELSE br.cursor
           key == formatCoord(x, y)
       IN  /\ tiles' = setTile(tiles, LayerOverlay, x, y, TileBridge)
           /\ bridgeTiles' = bridgeTiles \cup {key}
           /\ collisionMap' = deleteCollision(collisionMap, key)
           /\ br' = [br EXCEPT !.bridgeMap = @ \cup {key}, !.cursor = @ + 1,
                               !.stamped = @ \cup {<<x, y>>}]
    /\ UNCHANGED <<pc, twin>>
    /\ brFrame

\* lines 537 and 570: the stamping loop is over: bridgesPlaced++, next candidate
BridgeStamped ==
    /\ pc = "stampBridge"
    /\ br.cursor >= br.endCell
    /\ br' = [br EXCEPT !.bridgesPlaced = @ + 1, !.i = @ + 1, !.stamped = {},
                        !.placed = Append(@, [direction |-> br.scoredBridges[br.i].direction,
                                              cells |-> br.stamped])]
    /\ pc' = "place"
    /\ UNCHANGED <<tiles, bridgeTiles, collisionMap, twin>>
    /\ brFrame

\* line 500 false: the candidates are exhausted or numBridges bridges are placed
PlaceDone ==
    /\ pc = "place"
    /\ ~(br.i <= Len(br.scoredBridges) /\ br.bridgesPlaced < br.numBridges)
    /\ pc' = "done"
    /\ UNCHANGED <<tiles, bridgeTiles, collisionMap, br, twin>>
    /\ brFrame

\* lines 530 and 563: the cells from the start of the bridge to its end
footprint(b, end) ==
    IF b.direction = 0
    THEN {<<x, b.y>> : x \in b.x..(end - 1)}
    ELSE {<<b.x, y>> : y \in b.y..(end - 1)}

\* lines 499-573 run as a whole on a sorted slice: the cells that get a bridge
RECURSIVE placeFrom(_, _, _, _, _)
placeFrom(t, sorted, i, bridgesPlaced, cells) ==
    IF ~(i <= Len(sorted) /\ bridgesPlaced < bridgeLimit(sorted)) THEN cells
    ELSE LET b == sorted[i]
             end == bridgeEnd(t, b)
         IN  IF tooClose({formatCoord(c[1], c[2]) : c \in cells}, b, end)
             THEN placeFrom(t, sorted, i + 1, bridgesPlaced, cells)
             ELSE placeFrom(t, sorted, i + 1, bridgesPlaced + 1, cells \cup footprint(b, end))

(* ------------------------------------------------------------------ *)
(* The cells whose tile the next step indexes                         *)
(* ------------------------------------------------------------------ *)
\* lines 339-382 at (x, y): the cells of Base the loop body indexes, in the
\* order of the code; an index outside the map panics and ends the reads
horizontalReads(t, x, y) ==
    IF ~InBounds(x - 1, y) \/ isWater(t, x - 1, y) THEN {<<x - 1, y>>}
    ELSE IF ~InBounds(x, y) \/ ~isWater(t, x, y) THEN {<<x - 1, y>>, <<x, y>>}
    ELSE LET endX == waterEndX(t, y, x, width - 1)
             waterLength == endX - x
         IN  {<<x - 1, y>>} \cup {<<e, y>> : e \in x..min(endX, width - 2)}
                \cup (IF endX < width THEN {<<endX, y>>} ELSE {})
                \cup (IF endX < width /\ ~isWater(t, endX, y)
                         /\ waterLength >= MinWaterLength /\ waterLength <= MaxWaterLength
                      THEN (IF x - 1 >= 0 /\ y - 1 >= 0 /\ y + 1 < height
                            THEN {<<x - 1, y - 1>>, <<x - 1, y + 1>>} ELSE {})
                           \cup (IF endX < width /\ y - 1 >= 0 /\ y + 1 < height
                                 THEN {<<endX, y - 1>>, <<endX, y + 1>>} ELSE {})
                      ELSE {})

\* lines 399-442 at (x, y): the same for the vertical loop body
verticalReads(t, x, y) ==
    IF ~InBounds(x, y - 1) \/ isWater(t, x, y - 1) THEN {<<x, y - 1>>}
    ELSE IF ~InBounds(x, y) \/ ~isWater(t, x, y) THEN {<<x, y - 1>>, <<x, y>>}
    ELSE LET endY == waterEndY(t, x, y, height - 1)
             waterLength == endY - y
         IN  {<<x, y - 1>>} \cup {<<x, e>> : e \in y..min(endY, height - 2)}
                \cup (IF endY < height THEN {<<x, endY>>} ELSE {})
                \cup (IF endY < height /\ ~isWater(t, x, endY)
                         /\ waterLength >= MinWaterLength /\ waterLength <= MaxWaterLength
                      THEN (IF y - 1 >= 0 /\ x - 1 >= 0 /\ x + 1 < width
                            THEN {<<x - 1, y - 1>>, <<x + 1, y - 1>>} ELSE {})
                           \cup (IF endY < height /\ x - 1 >= 0 /\ x + 1 < width
                                 THEN {<<x - 1, endY>>, <<x + 1, endY>>} ELSE {})
                      ELSE {})

\* lines 507-511 and 541-544: the cells the search for the end of the water
\* indexes; the limit is checked before the tile is read
placementReads(t, b) ==
    IF b.direction = 0
    THEN {<<e, b.y>> : e \in b.x..min(bridgeEnd(t, b), width - 1)}
    ELSE {<<b.x, e>> : e \in b.y..min(bridgeEnd(t, b), height - 1)}

\* the cells whose tile (or waterMap entry) the step taken next reads or writes
tileAccesses ==
    CASE pc = "riverWalk" ->
            \* lines 168-173: the index follows the bounds check
            {c \in {<<water.x + water.dx, water.y + water.dy>>} : InBounds(c[1], c[2])}
      [] pc = "walk" ->
            \* lines 245 and 266: tiles[LayerBase][y][x] without a check
            {<<path.x, path.y>>}
      [] pc = "stamp" ->
            \* lines 313-315: the index follows the bounds check
            {c \in {<<mtn.mountainX + o[1], mtn.mountainY + o[2]>> : o \in OffsetDraws} :
                InBounds(c[1], c[2])}
      [] pc = "bridges" ->
            UNION {horizontalReads(tiles, c[1], c[2]) : c \in horizontalScan}
                \cup UNION {verticalReads(tiles, c[1], c[2]) : c \in verticalScan}
      [] pc = "place" /\ br.i <= Len(br.scoredBridges) /\ br.bridgesPlaced < br.numBridges ->
            placementReads(tiles, br.scoredBridges[br.i])
      [] pc = "stampBridge" /\ br.cursor < br.endCell ->
            \* lines 531 and 564: tiles[LayerOverlay][..][..] = TileBridge
            LET b == br.scoredBridges[br.i]
            IN  {IF b.direction = 0 THEN <<br.cursor, b.y>> ELSE <<b.x, br.cursor>>}
      [] OTHER -> {}

(* ------------------------------------------------------------------ *)
(* initMap as a whole                                                 *)
(* ------------------------------------------------------------------ *)
Next ==
    \/ InitLayers
    \/ SeedNoise \/ RelaxStep \/ FindRiverOrigins \/ RiversDone \/ RiverSkip
    \/ RiverBegin \/ RiverLeaveGrid \/ RiverStep \/ RiverTurn
    \/ CommitWater \/ CommitDone
    \/ ChoosePathPoints \/ WalkStep \/ WalkEnd
    \/ ChooseClusters \/ MountainAttempt \/ ClusterSize \/ MountainStamp
    \/ FindBridgeCandidates \/ BridgeCheck \/ StampBridgeCell \/ BridgeStamped \/ PlaceDone

\* initMap on the map of the game: 20 x 15
Spec == Init /\ [][Next]_vars

\* The stages take width and height as parameters (lines 80, 224, 276, 327);
\* initMap passes 20 and 15.  Dimensions a caller of the stages could pass:
ConfigDims == {<<20, 15>>, <<4, 15>>, <<20, 4>>, <<0, 15>>, <<-1, 15>>}

InitConfig == \E d \in ConfigDims : InitWith(d[1], d[2])

\* the stages run on each of the dimensions of ConfigDims
SpecConfig == InitConfig /\ [][Next]_vars

(* ------------------------------------------------------------------ *)
(* The game loop (src/game.go Update): one action per frame           *)
(* ------------------------------------------------------------------ *)
\* Bounds.  In the game the map stages follow one outcome of each draw.
\* Under focus "overworld" every set of held arrow keys is followed and the
\* encounter roll (rand.Float32() < 0.02) fails; under focus "battle" the
\* player holds Right until the first battle, whose roll succeeds at the
\* first arrival on grass, and the battle is followed with every input.
\* player.frameCount and the camera are read by the drawing code alone and
\* are left out.
GameFocus == {"overworld", "battle"}

gameFrame == UNCHANGED <<width, height, tiles, grassTiles, bridgeTiles, collisionMap,
                         waterMap, water, path, walkIters, mtn, br, twin, focus>>

ArrowKeys == {"Up", "Down", "Left", "Right"}

\* ebiten.IsKeyPressed: the arrow keys that are down in a frame
KeysHeld ==
    IF focus = "battle"
    THEN IF game.battle.enemyCreature = NoCreature THEN {{"Right"}} ELSE {{}}
    ELSE SUBSET ArrowKeys

\* line 654: rand.Float32() < g.encounterRate
EncounterRolls ==
    {r \in Roll : r = (focus = "battle" /\ game.battle.enemyCreature = NoCreature)}

\* battle.go line 29: rand.Intn(len(g.creatures)); the model follows index 0
EnemyChoices == {i \in Intn(Len(game.creatures)) : i = 0}

\* battle.go line 82: rand.Intn(len(moves)); the model follows index 0
EnemyMoveChoices == {i \in Intn(Len(game.battle.enemyCreature.moves)) : i = 0}

\* battle.go line 125: randomFactor = 0.85 + rand.Float32()*0.15, in
\* hundredths (85..100); the model follows 85
FactorDraws == {f \in 85..100 : f = 85}

\* a collision test that lets every tile pass
isCollisionNever(x, y) == FALSE

\* src/player.go, lines 112-115
isCollision(x, y) == formatCoord(x, y) \in collisionMap

\* src/player.go, lines 66-109: the first held key in the order Up, Down,
\* Left, Right sets the direction, and moves the tile when the cell ahead is
\* in the map and no collision
handlePlayerMovement(p, held) ==
    LET go(q) == [q EXCEPT !.movementState = MovementMoving]
    IN  IF "Up" \in held
        THEN LET d == [p EXCEPT !.direction = DirectionUp]
                 newY == p.tileY - 1
             IN  IF newY >= 0 /\ ~isCollision(p.tileX, newY)
                 THEN go([d EXCEPT !.tileY = newY]) ELSE d
        ELSE IF "Down" \in held
        THEN LET d == [p EXCEPT !.direction = DirectionDown]
                 newY == p.tileY + 1
             IN  IF newY < height /\ ~isCollision(p.tileX, newY)
                 THEN go([d EXCEPT !.tileY = newY]) ELSE d
        ELSE IF "Left" \in held
        THEN LET d == [p EXCEPT !.direction = DirectionLeft]
                 newX == p.tileX - 1
             IN  IF newX >= 0 /\ ~isCollision(newX, p.tileY)
                 THEN go([d EXCEPT !.tileX = newX]) ELSE d
        ELSE IF "Right" \in held
        THEN LET d == [p EXCEPT !.direction = DirectionRight]
                 newX == p.tileX + 1
             IN  IF newX < width /\ ~isCollision(newX, p.tileY)
                 THEN go([d EXCEPT !.tileX = newX]) ELSE d
        ELSE p

\* src/battle.go, lines 25-40
startBattle(gm, enemyIndex) ==
    LET enemy == gm.creatures[enemyIndex + 1]
    IN  [gm EXCEPT !.gameState = StateBattle,
                   !.battle.enemyCreature = [enemy EXCEPT !.hp = enemy.maxHP],
                   !.battle.currentTurn = 0,
                   !.battle.selectedAction = 0,
                   !.battle.battleTextTimer = TextFrames]

\* src/map.go, lines 614-636: the visual position moves 4 pixels towards
\* the target and stops on it
approach(v, target) ==
    IF v < target THEN min(v + movementSpeed, target)
    ELSE IF v > target THEN max(v - movementSpeed, target)
    ELSE v

\* a layer choice that ignores bridgeTiles
arrivalLayerBase(key) == LayerBase

\* src/map.go, lines 646-651
arrivalLayer(key) == IF key \in bridgeTiles THEN LayerOverlay ELSE LayerBase

\* src/map.go, lines 598-661: updateOverworld
updateOverworld(gm, held, encounter, enemyIndex) ==
    LET p == gm.player
    IN  IF p.movementState = MovementIdle
        THEN [gm EXCEPT !.player = handlePlayerMovement(p, held)]
        ELSE LET targetX == p.tileX * tileSize
                 targetY == p.tileY * tileSize
                 q == [p EXCEPT !.visualX = approach(@, targetX),
                                !.visualY = approach(@, targetY)]
             IN  IF q.visualX = targetX /\ q.visualY = targetY
                 THEN LET key == formatCoord(p.tileX, p.tileY)
                          r == [q EXCEPT !.movementState = MovementIdle,
                                         !.currentLayer = arrivalLayer(key)]
                          arrived == [gm EXCEPT !.player = r]
                          met == IF key \in grassTiles /\ r.currentLayer = LayerBase /\ encounter
                                 THEN startBattle(arrived, enemyIndex)
                                 ELSE arrived
                      IN  [met EXCEPT !.player = handlePlayerMovement(r, held)]
                 ELSE [gm EXCEPT !.player = q]

\* an hp that is not brought back to 0
noClamp(hp) == hp

\* src/battle.go, lines 65-67 and 88-90
clampHP(hp) == IF hp < 0 THEN 0 ELSE hp

\* src/battle.go, lines 118-128, with randomFactor = factor / 100
calculateDamage(attacker, defender, move, factor) ==
    LET levelPart == (2 * attacker.level) \div 5 + 2
        scaled == (levelPart * move.power * attacker.attack) \div defender.defense
        baseDamage == scaled \div 50 + 2
    IN  (baseDamage * factor) \div 100

\* src/battle.go, lines 53-57 (and part_002, lines 15-19): Up, else Down
moveSelection(sel, n, pressed) ==
    IF "Up" \in pressed THEN (sel - 1 + n) % n
    ELSE IF "Down" \in pressed THEN (sel + 1) % n
    ELSE sel

\* src/battle.go, lines 43-115: updateBattle
updateBattle(gm, pressed, enemyMoveIndex, factor) ==
    LET b == gm.battle
    IN  IF b.battleTextTimer > 0
        THEN [gm EXCEPT !.battle.battleTextTimer = @ - 1]
        ELSE LET turn ==
                   IF b.currentTurn = 0
                   THEN LET sel == moveSelection(b.selectedAction, Len(b.playerCreature.moves), pressed)
                            chosen == [gm EXCEPT !.battle.selectedAction = sel]
                        IN  IF "Space" \in pressed
                            THEN LET damage == calculateDamage(b.playerCreature, b.enemyCreature,
                                                               b.playerCreature.moves[sel + 1], factor)
                                 IN  [chosen EXCEPT !.battle.enemyCreature.hp = clampHP(@ - damage),
                                                    !.battle.battleTextTimer = TextFrames,
                                                    !.battle.currentTurn = 1]
                            ELSE chosen
                   ELSE IF b.enemyCreature.hp <= 0
                        THEN [gm EXCEPT !.battle.battleTextTimer = TextFrames,
                                        !.gameState = StateOverworld]
                        ELSE LET damage == calculateDamage(b.enemyCreature, b.playerCreature,
                                                           b.enemyCreature.moves[enemyMoveIndex + 1], factor)
                                 hp == clampHP(b.playerCreature.hp - damage)
                             IN  IF hp <= 0
                                 THEN [gm EXCEPT !.battle.playerCreature.hp = b.playerCreature.maxHP,
                                                 !.battle.battleTextTimer = TextFrames,
                                                 !.gameState = StateOverworld]
                                 ELSE [gm EXCEPT !.battle.playerCreature.hp = hp,
                                                 !.battle.battleTextTimer = TextFrames,
                                                 !.battle.currentTurn = 0]
             IN  IF "Escape" \in pressed
                 THEN [turn EXCEPT !.battle.battleTextTimer = TextFrames,
                                   !.gameState = StateOverworld]
                 ELSE turn

\* an initGame that never returns early
neverInitialized(gm) == FALSE

\* src/game.go, lines 65-67: initGame returns at once when gameInitialized
alreadyInitialized(gm) == gm.gameInitialized

\* src/game.go, lines 126-131: initMap has returned; initGame sets
\* gameInitialized and returns to NewGame, or to updateMainMenu (part_002,
\* line 25) when the call came from the menu of a Game that was initialized
InitGameReturn ==
    /\ pc = "done"
    /\ pc' = "update"
    /\ game' = [game EXCEPT !.gameInitialized = TRUE,
                            !.gameState = IF game.gameInitialized THEN StateOverworld ELSE @]
    /\ gameFrame

\* inpututil.IsKeyJustPressed: the keys that went down in a frame
MenuKeys == {"Up", "Down", "Space", "Enter"}

BattleKeys == {"Up", "Down", "Space", "Escape"}

\* src/unnamed/part_002, lines 14-34: updateMainMenu
MainMenuFrame ==
    /\ pc = "update"
    /\ game.gameState = StateMainMenu
    /\ \E pressed \in SUBSET MenuKeys :
          LET sel == moveSelection(game.selectedOption, Len(game.menuOptions), pressed)
              chosen == [game EXCEPT !.selectedOption = sel]
          IN  IF "Space" \in pressed \/ "Enter" \in pressed
              THEN CASE sel = 0 ->
                          IF alreadyInitialized(chosen)
                          THEN /\ game' = [chosen EXCEPT !.gameState = StateOverworld]
                               /\ UNCHANGED pc
                          ELSE /\ game' = [chosen EXCEPT !.creatures = Creatures,
                                                         !.battle.playerCreature = Creatures[1]]
                               /\ pc' = "initMap"
                     [] sel = 1 -> game' = chosen /\ UNCHANGED pc
                     [] OTHER -> game' = chosen /\ pc' = "exit"
              ELSE game' = chosen /\ UNCHANGED pc
    /\ gameFrame

\* src/game.go, line 140, and src/map.go, lines 598-665
OverworldFrame ==
    /\ pc = "update"
    /\ game.gameState = StateOverworld
    /\ \E held \in KeysHeld, encounter \in EncounterRolls, enemyIndex \in EnemyChoices :
          game' = updateOverworld(game, held, encounter, enemyIndex)
    /\ UNCHANGED pc
    /\ gameFrame

\* src/game.go, line 142, and src/battle.go, lines 43-115
BattleFrame ==
    /\ pc = "update"
    /\ game.gameState = StateBattle
    /\ \E pressed \in SUBSET BattleKeys, enemyMoveIndex \in EnemyMoveChoices, factor \in FactorDraws :
          game' = updateBattle(game, pressed, enemyMoveIndex, factor)
    /\ UNCHANGED pc
    /\ gameFrame

\* NewGame (initMap without rivers: no river origin is drawn in the game),
\* then Update frame after frame
NextGame ==
    \/ InitLayers
    \/ SeedNoise \/ RelaxStep \/ FindRiverOrigins \/ RiversDone
    \/ CommitWater \/ CommitDone
    \/ ChoosePathPoints \/ WalkStep \/ WalkEnd
    \/ ChooseClusters \/ MountainAttempt \/ ClusterSize \/ MountainStamp
    \/ FindBridgeCandidates \/ BridgeCheck \/ StampBridgeCell \/ BridgeStamped \/ PlaceDone
    \/ InitGameReturn \/ MainMenuFrame \/ OverworldFrame \/ BattleFrame

InitGame == focus \in GameFocus /\ InitFields(MapWidth, MapHeight)

SpecGame == InitGame /\ [][NextGame]_vars

(* ------------------------------------------------------------------ *)
(* Properties of the generated map                                    *)
(* ------------------------------------------------------------------ *)
isDone == pc = "done"

cellsWithBase(kind) == {c \in Coords : Base(c[1], c[2]) = kind}

keysOf(cells) == {formatCoord(c[1], c[2]) : c \in cells}

\* C1: after every step of initMap, every coordinate whose key is in
\* collisionMap has Base tile Water or Mountain.
CollisionIsWaterOrMountain ==
    \A c \in Coords :
        formatCoord(c[1], c[2]) \in collisionMap
            => Base(c[1], c[2]) \in {TileWater, TileMountain}

\* a finished map whose collisionMap holds a water cell and a mountain cell,
\* with a path laid and a bridge placed
CollisionWitness ==
    /\ isDone
    /\ bridgeTiles # {}
    /\ cellsWithBase(TilePath) # {}
    /\ keysOf(cellsWithBase(TileWater)) \cap collisionMap # {}
    /\ keysOf(cellsWithBase(TileMountain)) \cap collisionMap # {}

\* C2: after every step of initMap, no key is in both bridgeTiles and
\* collisionMap.
NoBridgeInCollision == bridgeTiles \cap collisionMap = {}

\* a bridge is being stamped over water that was in collisionMap, with water
\* cells still in collisionMap
BridgeStampWitness ==
    /\ pc = "stampBridge"
    /\ br.stamped # {}
    /\ \A c \in br.stamped : Base(c[1], c[2]) = TileWater
    /\ collisionMap # {}

\* C3: after every step of initMap, every coordinate whose key is in
\* grassTiles has Base tile Grass (none has Water, Path or Mountain).
GrassIsGrass ==
    \A c \in Coords :
        formatCoord(c[1], c[2]) \in grassTiles => Base(c[1], c[2]) = TileGrass

\* water, path and mountain tiles have been written and grass is left
GrassWitness ==
    /\ pc = "bridges"
    /\ grassTiles # {}
    /\ cellsWithBase(TileWater) # {}
    /\ cellsWithBase(TilePath) # {}
    /\ cellsWithBase(TileMountain) # {}

\* C4: in the finished map the three attribute sets are the sets recomputed
\* from the tile layers: grassTiles from Base = Grass, bridgeTiles from
\* Overlay = Bridge, collisionMap from Base in {Water, Mountain} less bridgeTiles.
SetsMatchTiles ==
    isDone =>
        /\ grassTiles = keysOf(cellsWithBase(TileGrass))
        /\ bridgeTiles = keysOf({c \in Coords : Overlay(c[1], c[2]) = TileBridge})
        /\ collisionMap =
              keysOf(cellsWithBase(TileWater) \cup cellsWithBase(TileMountain)) \ bridgeTiles

\* a finished map with bridges, mountains, paths and grass
SetsMatchWitness ==
    /\ isDone
    /\ Cardinality(bridgeTiles) >= 2 * MinWaterLength
    /\ cellsWithBase(TileMountain) # {}
    /\ cellsWithBase(TilePath) # {}
    /\ grassTiles # {}
    /\ collisionMap # {}

\* the cells before the first and after the last cell of a placed bridge
flanks(p) ==
    IF p.direction = 0
    THEN LET y == (CHOOSE c \in p.cells : TRUE)[2]
             xs == {c[1] : c \in p.cells}
         IN  {<<(CHOOSE x \in xs : \A v \in xs : x <= v) - 1, y>>,
              <<(CHOOSE x \in xs : \A v \in xs : x >= v) + 1, y>>}
    ELSE LET x == (CHOOSE c \in p.cells : TRUE)[1]
             ys == {c[2] : c \in p.cells}
         IN  {<<x, (CHOOSE y \in ys : \A v \in ys : y <= v) - 1>>,
              <<x, (CHOOSE y \in ys : \A v \in ys : y >= v) + 1>>}

\* C5: every cell of a placed bridge has Base tile Water, and the cells just
\* before its first and just after its last cell along its axis are cells of
\* the map whose Base tile is not Water.
BridgesSpanWater ==
    \A i \in 1..Len(br.placed) :
        LET p == br.placed[i]
        IN  /\ p.cells # {}
            /\ \A c \in p.cells : Base(c[1], c[2]) = TileWater
            /\ Cardinality(flanks(p)) = 2
            /\ \A f \in flanks(p) : InBounds(f[1], f[2]) /\ Base(f[1], f[2]) # TileWater

\* a horizontal and a vertical bridge have been placed
BridgesSpanWitness ==
    /\ isDone
    /\ \E i \in 1..Len(br.placed) : br.placed[i].direction = 0
    /\ \E i \in 1..Len(br.placed) : br.placed[i].direction = 1

chebyshev(c, d) == max(abs(c[1] - d[1]), abs(c[2] - d[2]))

\* C6: any cell of one placed bridge and any cell of another placed bridge are
\* at a Chebyshev distance greater than 2.
BridgesApart ==
    \A i \in 1..Len(br.placed), j \in 1..Len(br.placed) :
        i < j => \A c \in br.placed[i].cells, d \in br.placed[j].cells :
                    chebyshev(c, d) > buffer

\* two bridges are placed and a candidate between them was rejected
BridgesApartWitness ==
    /\ isDone
    /\ Len(br.placed) >= 2
    /\ br.i - 1 > br.bridgesPlaced

\* C7: placeBridges places at most 3 bridges.
AtMostThreeBridges ==
    /\ br.bridgesPlaced <= MaxBridges
    /\ Len(br.placed) <= MaxBridges

\* three bridges are placed, candidates were rejected for proximity, and
\* candidates are left over
ThreeBridgesWitness ==
    /\ isDone
    /\ br.bridgesPlaced = MaxBridges
    /\ br.i - 1 > MaxBridges
    /\ br.i <= Len(br.scoredBridges)

WalkBounded == walkIters <= (width - 1) + (height - 1)

SomePathAfterPaths ==
    (pc = "mountains" /\ width = MapWidth /\ height = MapHeight)
        => cellsWithBase(TilePath) # {}

\* C12: right after the layer-initialisation loop and before the water stage,
\* every cell of every layer is Grass, grassTiles holds the key of every
\* in-range coordinate (width * height distinct keys and nothing else), and
\* collisionMap and bridgeTiles are empty.
AllGrassAfterInit ==
    pc = "noise" =>
        /\ \A layer \in 0..(LayerCount - 1), x \in 0..(width - 1), y \in 0..(height - 1) :
              tiles[layer][y][x] = TileGrass
        /\ \A x \in 0..(width - 1), y \in 0..(height - 1) : formatCoord(x, y) \in grassTiles
        /\ Cardinality(grassTiles) = width * height
        /\ collisionMap = {}
        /\ bridgeTiles = {}

\* the layers of the 20x15 map have just been filled
AllGrassWitness ==
    /\ pc = "noise"
    /\ width = MapWidth /\ height = MapHeight
    /\ DOMAIN tiles = 0..(LayerCount - 1)
    /\ Cardinality(grassTiles) = MapWidth * MapHeight

\* C13: in each of the 4 relaxation passes a cell is water in the new grid if
\* and only if at least 4 of its up-to-8 neighbours (the cell itself not
\* counted) were water in the grid before the pass.
RelaxCountsEightNeighbours ==
    [][pc = "relax" =>
        \A c \in Coords :
            LET others == {d \in (Delta1 \X Delta1) \ {<<0, 0>>} :
                              /\ InBounds(c[1] + d[1], c[2] + d[2])
                              /\ waterMap[c[2] + d[2]][c[1] + d[1]]}
            IN  waterMap'[c[2]][c[1]] <=> (Cardinality(others) >= 4)]_vars

\* C14: a candidate is rejected for proximity if and only if some cell of a
\* bridge placed before it lies within Chebyshev distance 2 of some cell of
\* the candidate's run; a candidate whose run is at distance 3 or more from
\* every placed bridge is not rejected, whichever of the two came first.
RejectedIffWithinBuffer ==
    (pc = "place" /\ br.i <= Len(br.scoredBridges) /\ br.bridgesPlaced < br.numBridges)
        => LET b == br.scoredBridges[br.i]
               end == bridgeEnd(tiles, b)
               run == footprint(b, end)
               placedCells == UNION {br.placed[k].cells : k \in 1..Len(br.placed)}
           IN  tooClose(br.bridgeMap, b, end)
                  <=> \E c \in run, d \in placedCells : chebyshev(c, d) <= buffer

\* C15: detection covers every row and every column: every horizontal run of
\* 2..5 Water cells in any row 0..height-1 whose two end neighbours are cells
\* of the map that are not Water, each with a non-Water cell of the map right
\* above or below it, is among the candidates; likewise every vertical run in
\* any column 0..width-1, with the cells left and right of its end neighbours.
EveryRunIsCandidate ==
    pc \in {"place", "stampBridge", "done"} =>
        LET land(x, y) == InBounds(x, y) /\ ~isWater(tiles, x, y)
            recorded(x, y, direction, length) ==
                \E k \in 1..Len(br.scoredBridges) :
                    LET b == br.scoredBridges[k]
                    IN  b.x = x /\ b.y = y /\ b.direction = direction /\ b.length = length
            horizontalRun(x, y, length) ==
                /\ land(x - 1, y) /\ land(x + length, y)
                /\ \A k \in 0..(length - 1) : InBounds(x + k, y) /\ isWater(tiles, x + k, y)
                /\ land(x - 1, y - 1) \/ land(x - 1, y + 1)
                /\ land(x + length, y - 1) \/ land(x + length, y + 1)
            verticalRun(x, y, length) ==
                /\ land(x, y - 1) /\ land(x, y + length)
                /\ \A k \in 0..(length - 1) : InBounds(x, y + k) /\ isWater(tiles, x, y + k)
                /\ land(x - 1, y - 1) \/ land(x + 1, y - 1)
                /\ land(x - 1, y + length) \/ land(x + 1, y + length)
        IN  \A c \in Coords, length \in MinWaterLength..MaxWaterLength :
                /\ horizontalRun(c[1], c[2], length) => recorded(c[1], c[2], 0, length)
                /\ verticalRun(c[1], c[2], length) => recorded(c[1], c[2], 1, length)

\* C16: placeBridges considers the candidates one after the other in
\* non-increasing order of score; the candidate of the highest score is always
\* placed; a candidate is passed over only because a bridge lies in its buffered
\* rectangle, and candidates are left unconsidered only when 3 bridges are
\* placed; no bridge is placed exactly when there is no candidate.
PlacedInScoreOrder ==
    /\ [](pc \in {"place", "stampBridge", "done"} =>
            /\ \A k \in 1..(Len(br.scoredBridges) - 1) :
                  br.scoredBridges[k].score >= br.scoredBridges[k + 1].score
            /\ (br.i > 1) =>
                  (/\ Len(br.placed) >= 1
                   /\ br.placed[1].cells =
                         footprint(br.scoredBridges[1], bridgeEnd(tiles, br.scoredBridges[1])))
            /\ isDone =>
                  (/\ (br.bridgesPlaced = 0) <=> (Len(br.scoredBridges) = 0)
                   /\ (br.i <= Len(br.scoredBridges)) => (br.bridgesPlaced = MaxBridges)))
    /\ [][(pc \in {"place", "stampBridge"} =>
            /\ br'.i \in {br.i, br.i + 1}
            /\ br'.scoredBridges = br.scoredBridges
            /\ (br'.i = br.i + 1 /\ br'.bridgesPlaced = br.bridgesPlaced) =>
                  (/\ br.bridgesPlaced < MaxBridges
                   /\ tooClose(br.bridgeMap, br.scoredBridges[br.i],
                               bridgeEnd(tiles, br.scoredBridges[br.i]))))]_vars

\* the placement is over: the first candidate has its bridge, a later one of a
\* lower score was passed over, and another bridge was placed after that
ScoreOrderWitness ==
    /\ isDone
    /\ Len(br.placed) >= 2
    /\ br.i - 1 > br.bridgesPlaced
    /\ br.scoredBridges[1].score > br.scoredBridges[br.i - 1].score
    /\ br.placed[1].cells =
          footprint(br.scoredBridges[1], bridgeEnd(tiles, br.scoredBridges[1]))

\* C17: the cells of every placed bridge form one straight horizontal or
\* vertical run of 2..5 adjacent cells starting at the candidate's cell, and
\* their number is the length recorded for the candidate at detection: the end
\* of the run found again at placement is the end found at detection.
FootprintIsCandidateRun ==
    /\ pc = "stampBridge" =>
          LET b == br.scoredBridges[br.i]
              start == IF b.direction = 0 THEN b.x ELSE b.y
          IN  /\ b.length >= MinWaterLength /\ b.length <= MaxWaterLength
              /\ br.endCell = start + b.length
              /\ br.cursor >= start /\ br.cursor <= br.endCell
              /\ br.stamped = footprint(b, br.cursor)
    /\ \A i \in 1..Len(br.placed) :
          LET p == br.placed[i]
              n == Cardinality(p.cells)
          IN  /\ n >= MinWaterLength /\ n <= MaxWaterLength
              /\ \E k \in 1..Len(br.scoredBridges) :
                    LET b == br.scoredBridges[k]
                    IN  /\ b.direction = p.direction
                        /\ b.length = n
                        /\ p.cells = IF b.direction = 0
                                     THEN {<<b.x + j, b.y>> : j \in 0..(n - 1)}
                                     ELSE {<<b.x, b.y + j>> : j \in 0..(n - 1)}

\* the last cell of a vertical bridge of 4 cells has just been stamped
FootprintWitness ==
    /\ pc = "stampBridge"
    /\ br.cursor >= br.endCell
    /\ br.scoredBridges[br.i].direction = 1
    /\ br.scoredBridges[br.i].length = 4
    /\ Cardinality(br.stamped) = 4

\* C18: once the water stage has committed its grid, the set of cells whose
\* Base tile is Water is frozen: no step of the path, mountain or bridge stage
\* changes the Base tile of a Water cell or makes another cell Water.
WaterFrozenAfterCommit ==
    [][(pc \in {"paths", "walk", "mountains", "attempt", "stamp", "bridges", "place",
                "stampBridge"}
           => (cellsWithBase(TileWater)' = cellsWithBase(TileWater)))]_vars

\* a walk of generatePaths stands on a Water cell, and the map has Path cells
WaterFrozenWitness ==
    /\ pc = "walk"
    /\ walkIters >= 1
    /\ Base(path.x, path.y) = TileWater
    /\ cellsWithBase(TilePath) # {}

\* C19: the Base tile of a cell follows a fixed precedence.  It is Water if and
\* only if the water stage marked the cell.  After that a walk of generatePaths
\* makes the cell it stands on (a visited cell or the destination of a segment)
\* Path unless it is Water, and a stamp of generateMountains makes its cell
\* Mountain unless it is Water, a Path cell included; no other step changes a
\* Base tile, so a cell that nothing has written stays Grass.
BasePrecedence ==
    [][LET written(c, target, kind) ==
               IF c = target /\ Base(c[1], c[2]) # TileWater THEN kind ELSE Base(c[1], c[2])
           stampOffsets == (-2..2) \X (-2..2)
       IN  (/\ (pc = "commit" /\ pc' = "paths") =>
                  (\A c \in Coords : (Base(c[1], c[2])' = TileWater) <=> waterMap[c[2]][c[1]])
            /\ (pc = "walk") =>
                  (\A c \in Coords :
                      Base(c[1], c[2])' = written(c, <<path.x, path.y>>, TilePath))
            /\ (pc = "stamp") =>
                  (\E o \in stampOffsets :
                      \A c \in Coords :
                          Base(c[1], c[2])' =
                              written(c, <<mtn.mountainX + o[1], mtn.mountainY + o[2]>>,
                                      TileMountain))
            /\ (pc \in {"paths", "mountains", "attempt", "bridges", "place", "stampBridge"}) =>
                  (\A c \in Coords : Base(c[1], c[2])' = Base(c[1], c[2])))]_vars

\* in the finished map the first waypoint, a Path cell after generatePaths, is
\* Mountain, and the map has Water, Path and Grass cells as well
BasePrecedenceWitness ==
    /\ isDone
    /\ Base(WaypointChoices[1][1], WaypointChoices[1][2]) = TileMountain
    /\ cellsWithBase(TileWater) # {}
    /\ cellsWithBase(TilePath) # {}
    /\ cellsWithBase(TileGrass) # {}

\* C20: during every walk of generatePaths the position stays inside the
\* bounding box of the start and the end of its segment, and so on the map,
\* and every iteration either brings it exactly one step closer to the end
\* (Manhattan distance) or leaves it where it is; it never moves away.
WalkStaysInBox ==
    /\ [](pc = "walk" =>
            LET start == path.points[path.i]
            IN  /\ InBounds(path.x, path.y)
                /\ path.x >= min(start[1], walkEnd[1]) /\ path.x <= max(start[1], walkEnd[1])
                /\ path.y >= min(start[2], walkEnd[2]) /\ path.y <= max(start[2], walkEnd[2]))
    /\ [][(pc = "walk" /\ pc' = "walk" /\ path'.i = path.i) =>
            LET before == abs(path.x - walkEnd[1]) + abs(path.y - walkEnd[2])
                after == abs(path'.x - walkEnd[1]) + abs(path'.y - walkEnd[2])
            IN  \/ after = before - 1
                \/ (path'.x = path.x /\ path'.y = path.y)]_vars

\* a walk has moved off its start, has not reached its end, and has stood
\* still for at least one iteration
WalkWitness ==
    /\ pc = "walk"
    /\ <<path.x, path.y>> # path.points[path.i]
    /\ <<path.x, path.y>> # walkEnd
    /\ walkIters > abs(path.x - path.points[path.i][1]) + abs(path.y - path.points[path.i][2])

\* C21: in every river walk of generateWaterBodies, at the start of each step
\* both components of the direction are in -1..1 and the direction is not
\* <<0, 0>>; a walk has at most 10 iterations, each marking one cell of the
\* grid, and it ends at the first step whose cell would lie outside the grid.
RiverWalkKeepsDirection ==
    /\ [](pc = "riverWalk" =>
            /\ water.dx \in -1..1 /\ water.dy \in -1..1
            /\ ~(water.dx = 0 /\ water.dy = 0)
            /\ water.left >= 1 /\ water.left <= 10
            /\ InBounds(water.x, water.y))
    /\ [][((pc = "river" /\ pc' = "riverWalk") => (water'.left >= 3 /\ water'.left <= 10))
          /\ ((pc = "riverWalk") =>
                LET nx == water.x + water.dx
                    ny == water.y + water.dy
                IN  IF InBounds(nx, ny)
                    THEN /\ waterMap' = [waterMap EXCEPT ![ny][nx] = TRUE]
                         /\ water'.x = nx /\ water'.y = ny
                         /\ water'.left = water.left - 1
                    ELSE /\ waterMap' = waterMap
                         /\ pc' = "river")]_vars

\* a river has changed its direction and now runs diagonally
RiverWalkWitness ==
    /\ pc = "riverWalk"
    /\ water.turns >= 1
    /\ water.dx # 0 /\ water.dy # 0
    /\ waterMap[water.y][water.x]

FormatCoordCollides ==
    \E c \in Coords, d \in Coords :
        /\ c # d
        /\ c[1] >= 10 \/ c[2] >= 10 \/ d[1] >= 10 \/ d[2] >= 10
        /\ formatCoord(c[1], c[2]) = formatCoord(d[1], d[2])

\* C23, amended: on the 20x15 map formatCoord gives distinct coordinates
\* distinct keys, those with x >= 10 or y >= 10 included: the keys written by
\* the layer-initialisation loop are as many as the cells, and each key is the
\* key of one coordinate only.
FormatCoordInjective ==
    pc = "noise" =>
        /\ Cardinality({formatCoord(c[1], c[2]) : c \in Coords}) = width * height
        /\ \A c \in Coords, d \in Coords :
              formatCoord(c[1], c[2]) = formatCoord(d[1], d[2]) => c = d

\* the keys of cells with coordinates of two decimal digits are in grassTiles
\* and differ from the keys of the cells with the same last digits
FormatCoordWitness ==
    /\ pc = "noise"
    /\ width = MapWidth /\ height = MapHeight
    /\ formatCoord(10, 10) \in grassTiles
    /\ formatCoord(MapWidth - 1, MapHeight - 1) \in grassTiles
    /\ formatCoord(10, 10) # formatCoord(0, 0)
    /\ formatCoord(MapWidth - 1, MapHeight - 1) # formatCoord(9, 4)

\* C24: on the 20x15 map no step of the water, path, mountain or bridge stage
\* reads or writes a tile at a coordinate outside 0 <= x < width,
\* 0 <= y < height.
NoAccessOutsideMap ==
    (width = MapWidth /\ height = MapHeight) => tileAccesses \subseteq Coords

\* the detection loops are about to run on a map with water, and they index
\* cells of the first and of the last column
NoAccessWitness ==
    /\ pc = "bridges"
    /\ cellsWithBase(TileWater) # {}
    /\ \E y \in 0..(height - 1) : <<0, y>> \in tileAccesses
    /\ \E y \in 0..(height - 1) : <<width - 1, y>> \in tileAccesses

\* C29: in the finished map, the key of neither flank cell of a placed bridge
\* is in collisionMap.
FlanksPassable ==
    isDone =>
        \A i \in 1..Len(br.placed) :
            \A f \in flanks(br.placed[i]) : formatCoord(f[1], f[2]) \notin collisionMap

(* ------------------------------------------------------------------ *)
(* Properties of the game loop                                        *)
(* ------------------------------------------------------------------ *)
inOverworld == pc = "update" /\ game.gameState = StateOverworld

\* the cell a set of held keys points the player to: one step in the
\* direction of the first held key in the order Up, Down, Left, Right
ahead(p, held) ==
    IF "Up" \in held THEN <<p.tileX, p.tileY - 1>>
    ELSE IF "Down" \in held THEN <<p.tileX, p.tileY + 1>>
    ELSE IF "Left" \in held THEN <<p.tileX - 1, p.tileY>>
    ELSE <<p.tileX + 1, p.tileY>>

passable(c) == InBounds(c[1], c[2]) /\ formatCoord(c[1], c[2]) \notin collisionMap

\* C25: every step that changes the player's tile changes it by exactly one
\* cell along one axis, to a cell of the map whose key is not in
\* collisionMap; and handlePlayerMovement with keys held towards a cell
\* outside the map or in collisionMap leaves tileX, tileY and movementState
\* as they were.
MovesAreSingleFreeSteps ==
    /\ [](pc = "update" =>
            \A held \in (SUBSET ArrowKeys) \ {{}} :
                LET p == game.player
                    q == handlePlayerMovement(p, held)
                IN  ~passable(ahead(p, held)) =>
                        (/\ q.tileX = p.tileX
                         /\ q.tileY = p.tileY
                         /\ q.movementState = p.movementState))
    /\ [][(LET p == game.player
               q == game'.player
           IN  (p.tileX # q.tileX \/ p.tileY # q.tileY) =>
                   (/\ abs(q.tileX - p.tileX) + abs(q.tileY - p.tileY) = 1
                    /\ passable(<<q.tileX, q.tileY>>)
                    /\ q.movementState = MovementMoving))]_vars

\* the player has left the spawn tile, stands idle and faces left, where the
\* next cell is a collision cell, and elsewhere stands at the right edge
MovesWitness ==
    /\ inOverworld
    /\ game.player.movementState = MovementIdle
    /\ <<game.player.tileX, game.player.tileY>> # <<5, 5>>
    /\ game.player.direction = DirectionLeft
    /\ isCollision(game.player.tileX - 1, game.player.tileY)

\* C26: when a move of the player completes, currentLayer becomes Overlay if
\* the key of the arrival tile is in bridgeTiles and Base otherwise; and a
\* battle starts only in a step that completes a move on a tile whose key is
\* in grassTiles and not in bridgeTiles, with the player on the Base layer.
LayerAndEncounterOnArrival ==
    [][(LET p == game.player
            q == game'.player
            key == formatCoord(p.tileX, p.tileY)
            arrives == /\ inOverworld
                       /\ p.movementState = MovementMoving
                       /\ q.visualX = p.tileX * tileSize
                       /\ q.visualY = p.tileY * tileSize
        IN  /\ arrives =>
                   q.currentLayer = (IF key \in bridgeTiles THEN LayerOverlay ELSE LayerBase)
            /\ (game.gameState # StateBattle /\ game'.gameState = StateBattle) =>
                   (/\ arrives
                    /\ key \in grassTiles
                    /\ key \notin bridgeTiles
                    /\ q.currentLayer = LayerBase))]_vars

\* a battle has just started on the tile after a bridge tile that the player
\* crossed on the Overlay layer
EncounterWitness ==
    /\ pc = "update"
    /\ game.gameState = StateBattle
    /\ game.battle.battleTextTimer = TextFrames
    /\ game.player.currentLayer = LayerBase
    /\ formatCoord(game.player.visualX \div tileSize - 1, game.player.visualY \div tileSize)
           \in bridgeTiles

\* C27: once initGame has set gameInitialized, no step changes worldMap
\* (its dimensions, tiles, grassTiles, bridgeTiles, collisionMap) or the
\* creature list, the step of New Game in the main menu included.
MapGeneratedOnce ==
    [][(game.gameInitialized =>
            (/\ UNCHANGED <<width, height, tiles, grassTiles, bridgeTiles, collisionMap>>
             /\ game'.creatures = game.creatures))]_vars

\* New Game has been selected in the main menu of an initialized Game whose
\* map has water: the overworld is entered
NewGameWitness ==
    /\ inOverworld
    /\ game.gameInitialized
    /\ game.selectedOption = 0
    /\ game.player.movementState = MovementIdle
    /\ cellsWithBase(TileWater) # {}

\* C28: in every state of the overworld, the key of the player's tile is not
\* in collisionMap.
PlayerNeverInCollision ==
    inOverworld => formatCoord(game.player.tileX, game.player.tileY) \notin collisionMap

inBattle == pc = "update" /\ game.gameState = StateBattle

hpInRange(c) == c.hp >= 0 /\ c.hp <= c.maxHP

\* C30: the hp of both creatures of the battle stays within 0..maxHP; a
\* frame of a battle with battleTextTimer > 0 changes no creature, turn or
\* selection and does not end the battle; and while the enemy's hp is 0 the
\* player's creature loses no hp, and the enemy turn that is processed
\* (timer 0, currentTurn 1) sets gameState to Overworld.
BattleRules ==
    /\ [](hpInRange(game.battle.playerCreature) /\ hpInRange(game.battle.enemyCreature))
    /\ [][(LET b == game.battle
               c == game'.battle
           IN  /\ (inBattle /\ b.battleTextTimer > 0) =>
                      (/\ c.playerCreature = b.playerCreature
                       /\ c.enemyCreature = b.enemyCreature
                       /\ c.currentTurn = b.currentTurn
                       /\ c.selectedAction = b.selectedAction
                       /\ c.battleTextTimer = b.battleTextTimer - 1
                       /\ game'.gameState = StateBattle)
               /\ (inBattle /\ b.enemyCreature.hp = 0) =>
                      c.playerCreature.hp = b.playerCreature.hp
               /\ (inBattle /\ b.enemyCreature.hp = 0 /\ b.battleTextTimer = 0) =>
                      (/\ b.currentTurn = 1
                       /\ game'.gameState = StateOverworld
                       /\ c.enemyCreature = b.enemyCreature))]_vars

\* a battle has ended at the enemy's turn with the enemy at 0 hp, after the
\* player's creature has been hit down to 2 hp
EnemyFaintedWitness ==
    /\ inOverworld
    /\ game.battle.enemyCreature.hp = 0
    /\ game.battle.enemyCreature.maxHP > 0
    /\ game.battle.currentTurn = 1
    /\ game.battle.battleTextTimer = TextFrames
    /\ game.battle.playerCreature.hp = 2
    /\ game.player.movementState = MovementIdle

====
